---- MODULE Spec2Model ----
(***************************************************************************)
(* Model of cap_test_2.ino: a capacitive-touch control loop for Teensy 4.0 *)
(* that calibrates a baseline, filters the analog reading with a running   *)
(* median, detects touch and release with hysteresis and debouncing, and   *)
(* plays a fixed DMX light sequence on every touch.                        *)
(*                                                                         *)
(* One action models setup() (with calibrateBaseline()), one models an     *)
(* iteration of loop() up to the point where it blocks, and one action per *)
(* delay() of playLightSequence() models the rest of the playback.         *)
(***************************************************************************)
EXTENDS Integers, Sequences, FiniteSets, TLC

-----------------------------------------------------------------------------
(* Program constants                                                       *)

NUM_RGB_FIX == 7
CH_PER_RGB == 3
CH_LAST_FIX == 1
TOTAL_DMX_CH == NUM_RGB_FIX * CH_PER_RGB + CH_LAST_FIX
SAMPLE_SIZE == 9
DEBOUNCE_TIME == 50
BASELINE_UPDATE_RATE == 10000

numCalibrationSamples == 100
NumSettleReads == 10
NumNoiseSamples == 20
NoiseMultiplier == 3
ThresholdFloor == 50
NumBurstSamples == 10
BurstSampleDelay == 5
AccentChannel == 20
FullIntensity == 255
ADC_MAX == 1023
InitialTouchThreshold == 60
InitialReleaseThreshold == 40
LoopDelay == 10

\* the delay() calls of setup() and calibrateBaseline(), in milliseconds
SetupDuration == 1000 + NumSettleReads * 5 + numCalibrationSamples * 30 + NumNoiseSamples * 10
\* the ten delay(5) calls of the adaptive burst
BurstDuration == NumBurstSamples * BurstSampleDelay
\* the four delay() calls of playLightSequence
Hold1 == 500
Hold2 == 250
Hold3 == 2000
Hold4 == 7000

-----------------------------------------------------------------------------
(* Bounds of the model                                                     *)

\* number of loop() iterations explored
MaxTicks == 11
\* number of long stalls explored
MaxStalls == 1
\* the ambient reading of the sensor in the control-loop specification
QuietLevel == 500
\* a long stall between two iterations of loop(), in milliseconds
LongStall == 10000

\* readings the sensor produces in the control-loop specification: the
\* ambient level and the level just above the touch threshold of a quiet
\* calibration
HighLevel == QuietLevel + ThresholdFloor + 1
Levels == {QuietLevel, HighLevel}
\* the value that stands for no level
NoLevel == 0 - 1

\* number of calibration readings at the first level of a split calibration
CalSplit == 37
\* how far the ambient level of the drift specification lies from QuietLevel
DriftSpan == 60
\* the non-zero intensities of the prior bus states of the bus specification
BusIntensities == {1, FullIntensity}
\* the constant readings of the constant-input specification
ConstLevels == {0, QuietLevel, ADC_MAX}

-----------------------------------------------------------------------------
(* Arithmetic helpers                                                      *)

Abs(x) == IF x < 0 THEN -x ELSE x

Max(a, b) == IF a > b THEN a ELSE b

\* s[lo] + ... + s[hi], added up by halves
RECURSIVE SumRange(_, _, _)
SumRange(s, lo, hi) ==
    IF lo > hi THEN 0
    ELSE IF lo = hi THEN s[lo]
    ELSE LET mid == (lo + hi) \div 2
         IN  SumRange(s, lo, mid) + SumRange(s, mid + 1, hi)

SumSeq(s) == SumRange(s, 1, Len(s))

\* millis() - since in unsigned long arithmetic; the clock of the model stays
\* far below the 2^32 ms at which millis() wraps, where this is t - since
Elapsed(t, since) == t - since

Const(v, n) == [i \in 1..n |-> v]

Mix(a, b, k, n) == [i \in 1..n |-> IF i <= k THEN a ELSE b]

AllEqual(s, v) == \A i \in DOMAIN s : s[i] = v

-----------------------------------------------------------------------------
(* RunningMedian                                                           *)

\* a variant that overwrites the newest reading of a full buffer
Add_OverwritesNewest(w, v) ==
    IF Len(w) < SAMPLE_SIZE THEN Append(w, v) ELSE Append(SubSeq(w, 1, Len(w) - 1), v)

\* RunningMedian::add: a circular buffer of SAMPLE_SIZE readings, oldest first
Add(w, v) == IF Len(w) < SAMPLE_SIZE THEN Append(w, v) ELSE Append(Tail(w), v)

RECURSIVE Insert(_, _)
Insert(s, v) ==
    IF s = <<>> THEN <<v>>
    ELSE IF v <= Head(s) THEN <<v>> \o s
    ELSE <<Head(s)>> \o Insert(Tail(s), v)

RECURSIVE Sorted(_)
Sorted(w) == IF w = <<>> THEN <<>> ELSE Insert(Sorted(Tail(w)), Head(w))

\* a variant that takes the middle of the buffer without sorting it
GetMedian_Unsorted(w) == w[Len(w) \div 2 + 1]

\* RunningMedian::getMedian, converted to int
GetMedian(w) ==
    LET s == Sorted(w)
        n == Len(w)
    IN  IF n % 2 = 1 THEN s[n \div 2 + 1]
        ELSE (s[n \div 2] + s[n \div 2 + 1]) \div 2

-----------------------------------------------------------------------------
(* calibrateBaseline                                                       *)

CalBaseline(cal) == SumSeq(cal) \div numCalibrationSamples

\* a variant that adds the differences up with their signs
NoiseLevel_Signed(noise, b) ==
    SumSeq([i \in DOMAIN noise |-> noise[i] - b]) \div NumNoiseSamples

NoiseLevel(noise, b) ==
    SumSeq([i \in DOMAIN noise |-> Abs(noise[i] - b)]) \div NumNoiseSamples

\* a variant that takes the smaller of the two
TouchThresholdOf_Min(noiseLevel) ==
    IF noiseLevel * NoiseMultiplier < ThresholdFloor THEN noiseLevel * NoiseMultiplier
    ELSE ThresholdFloor

TouchThresholdOf(noiseLevel) == Max(noiseLevel * NoiseMultiplier, ThresholdFloor)

ReleaseThresholdOf(t) == (t * 2) \div 3

-----------------------------------------------------------------------------
(* DMX writes                                                              *)

SetWrite(ch, val) == <<"set", ch, val>>

HoldEntry(ms) == <<"hold", 0, ms>>

SetRGB(fixtureIndex, val) ==
    LET base == fixtureIndex * CH_PER_RGB + 1
    IN  <<SetWrite(base, val), SetWrite(base + 1, val), SetWrite(base + 2, val)>>

\* a variant that clears the RGB fixtures only
AllOff_RGBOnly == [ch \in 1..(NUM_RGB_FIX * CH_PER_RGB) |-> SetWrite(ch, 0)]

AllOff == [ch \in 1..TOTAL_DMX_CH |-> SetWrite(ch, 0)]

\* the channel values after a sequence of dmxTx.set calls
RECURSIVE ApplyWrites(_, _)
ApplyWrites(d, ws) ==
    IF ws = <<>> THEN d
    ELSE ApplyWrites([d EXCEPT ![Head(ws)[2]] = Head(ws)[3]], Tail(ws))

-----------------------------------------------------------------------------
(* updateAdaptiveBaseline and the guards of loop                           *)

\* a variant that does not look at the touch state
AdaptDue_IgnoresTouch(tchd, t, last) == Elapsed(t, last) > BASELINE_UPDATE_RATE

AdaptDue(tchd, t, last) == ~tchd /\ Elapsed(t, last) > BASELINE_UPDATE_RATE

\* a variant with the two weights exchanged
BlendBaseline_NewWeighted(b, burst) ==
    (b + (SumSeq(burst) \div NumBurstSamples) * 9) \div 10

\* a variant that divides before it adds
BlendBaseline_DivideFirst(b, burst) ==
    (b * 9) \div 10 + (SumSeq(burst) \div NumBurstSamples) \div 10

BlendBaseline(b, burst) ==
    LET newReading == SumSeq(burst) \div NumBurstSamples
    IN  (b * 9 + newReading) \div 10

\* a variant that fires again while touched
TouchGuard_Retrigger(tchd, difference, thr, currentTime, last) ==
    difference > thr /\ Elapsed(currentTime, last) > DEBOUNCE_TIME

\* a variant without the debounce condition
TouchGuard_NoDebounce(tchd, difference, thr, currentTime, last) ==
    ~tchd /\ difference > thr

TouchGuard(tchd, difference, thr, currentTime, last) ==
    ~tchd /\ difference > thr /\ Elapsed(currentTime, last) > DEBOUNCE_TIME

\* a variant with the debounce comparison turned around
ReleaseGuard_DebounceReversed(tchd, difference, rel, currentTime, last) ==
    tchd /\ difference < rel /\ Elapsed(currentTime, last) < DEBOUNCE_TIME

\* a variant that also releases at the release threshold itself
ReleaseGuard_NonStrict(tchd, difference, rel, currentTime, last) ==
    tchd /\ difference <= rel /\ Elapsed(currentTime, last) > DEBOUNCE_TIME

ReleaseGuard(tchd, difference, rel, currentTime, last) ==
    tchd /\ difference < rel /\ Elapsed(currentTime, last) > DEBOUNCE_TIME

-----------------------------------------------------------------------------
(* State                                                                   *)

VARIABLES
    pc,                 \* "setup", "loop", or the delay playLightSequence is in
    now,                \* millis() when the program last read the clock or slept
    baseline, touchThreshold, releaseThreshold,
    touched, lastTouchTime, lastBaselineUpdate,
    touchSamples,       \* the RunningMedian window, oldest first
    led,                \* level of ledPin
    dmx,                \* last value set on every DMX channel
    busLog,             \* the writes and holds of the current or last playback
    plays,              \* calls of playLightSequence so far
    releases,           \* Touched -> Idle transitions so far
    adapted,            \* the last iteration of loop ran the adaptive update
    ticks,              \* iterations of loop so far
    stalls,             \* long stalls so far
    constLevel,         \* the value of every reading when the input is constant, or NoLevel
    stepLevel,          \* the level held by every reading since a step began, or NoLevel
    stepTicks,          \* iterations since that step began
    spikePhase,         \* shape of the readings since calibration
    spikeStart,         \* time of the first sample of the spike
    spikeBase,          \* the baseline the spike rises from
    busBefore,          \* the channel values when allOff was last called
    allOffCalls,        \* calls of allOff so far
    calmTicks,          \* iterations since the last playback that all read the baseline
    calRun,             \* the calibration readings, when the run records them
    noiseRun,           \* the noise readings, when the run records them
    newReading,         \* the mean of the burst of the last adaptive update
    reads               \* calls of analogRead since calibration

progVars == <<pc, now, baseline, touchThreshold, releaseThreshold, touched,
              lastTouchTime, lastBaselineUpdate, touchSamples, led, dmx>>
obsVars == <<busLog, plays, releases, adapted, ticks, stalls, constLevel, stepLevel,
             stepTicks, spikePhase, spikeStart, spikeBase, busBefore, allOffCalls,
             calmTicks, calRun, noiseRun, newReading, reads>>
vars == <<progVars, obsVars>>

\* the state after the globals are constructed; c is NoLevel, or the value of
\* every reading of a constant input
InitWith(c) ==
    /\ pc = "setup"
    /\ now = 0
    /\ baseline = 0
    /\ touchThreshold = InitialTouchThreshold
    /\ releaseThreshold = InitialReleaseThreshold
    /\ touched = FALSE
    /\ lastTouchTime = 0
    /\ lastBaselineUpdate = 0
    /\ touchSamples = <<>>
    /\ led = "LOW"
    /\ dmx = [ch \in 1..TOTAL_DMX_CH |-> 0]
    /\ busLog = <<>>
    /\ plays = 0
    /\ releases = 0
    /\ adapted = FALSE
    /\ ticks = 0
    /\ stalls = 0
    /\ constLevel = c
    /\ stepLevel = NoLevel
    /\ stepTicks = 0
    /\ spikePhase = "none"
    /\ spikeStart = 0
    /\ spikeBase = 0
    /\ busBefore = [ch \in 1..TOTAL_DMX_CH |-> 0]
    /\ allOffCalls = 0
    /\ calmTicks = 0
    /\ calRun = <<>>
    /\ noiseRun = <<>>
    /\ newReading = 0
    /\ reads = 0

Init == InitWith(NoLevel)

-----------------------------------------------------------------------------
(* setup                                                                   *)

Setup(cal, noise) ==
    LET b == CalBaseline(cal)
        t == TouchThresholdOf(NoiseLevel(noise, b))
    IN  /\ pc = "setup"
        /\ pc' = "loop"
        /\ dmx' = ApplyWrites(dmx, AllOff)
        /\ busBefore' = dmx
        /\ allOffCalls' = allOffCalls + 1
        /\ baseline' = b
        /\ touchThreshold' = t
        /\ releaseThreshold' = ReleaseThresholdOf(t)
        /\ led' = "HIGH"
        /\ touchSamples' = Const(b, SAMPLE_SIZE)
        /\ now' = now + SetupDuration
        /\ lastBaselineUpdate' = now + SetupDuration
        /\ spikePhase' = "base"
        /\ spikeBase' = b
        /\ UNCHANGED <<touched, lastTouchTime, busLog, plays, releases, adapted,
                       ticks, stalls, constLevel, stepLevel, stepTicks, spikeStart,
                       calmTicks, newReading, reads>>

\* the readings analogRead can return in the current state
Readings == IF constLevel = NoLevel THEN Levels ELSE {constLevel}

\* steady readings during calibration: the ambient level, or the constant input
SteadyLevel == IF constLevel = NoLevel THEN QuietLevel ELSE constLevel

SetupMain ==
    /\ Setup(Const(SteadyLevel, numCalibrationSamples), Const(SteadyLevel, NumNoiseSamples))
    /\ UNCHANGED <<calRun, noiseRun>>

-----------------------------------------------------------------------------
(* Observers of the readings                                               *)

\* the samples an iteration of loop takes: the reading of line 166, then
\* the burst of updateAdaptiveBaseline when it runs
TickSamples(r, burst) == <<r>> \o burst

\* the time of the i-th sample of an iteration that starts at time start
SampleTime(start, i) == IF i <= 2 THEN start ELSE start + (i - 2) * BurstSampleDelay

\* one sample v at time t seen by the spike observer <<phase, start>>
SpikeStep(ph, v, t, base, thr) ==
    LET high == v > base + thr
        atBase == v = base
    IN  CASE ph[1] = "base" /\ atBase -> ph
          [] ph[1] = "base" /\ high -> <<"high", t>>
          [] ph[1] = "high" /\ high /\ t - ph[2] < DEBOUNCE_TIME -> ph
          [] ph[1] = "high" /\ atBase -> <<"back", ph[2]>>
          [] ph[1] = "back" /\ atBase -> ph
          [] OTHER -> <<"off", ph[2]>>

RECURSIVE SpikeFold(_, _, _, _, _, _)
SpikeFold(ph, samples, i, start, base, thr) ==
    IF i > Len(samples) THEN ph
    ELSE SpikeFold(SpikeStep(ph, samples[i], SampleTime(start, i), base, thr),
                   samples, i + 1, start, base, thr)

-----------------------------------------------------------------------------
(* loop                                                                    *)

\* One iteration of loop(): r is the reading of line 166, d the time since
\* the previous iteration read the clock, burst the readings of the adaptive
\* update (empty when it does not run).
LoopBody(r, d, burst) ==
    LET start == now + d
        win == Add(touchSamples, r)
        filteredValue == GetMedian(win)
        difference == filteredValue - baseline
        due == burst # <<>>
        currentTime == IF due THEN start + BurstDuration ELSE start
        touch == TouchGuard(touched, difference, touchThreshold, currentTime, lastTouchTime)
        release == ~touch /\ ReleaseGuard(touched, difference, releaseThreshold,
                                          currentTime, lastTouchTime)
        samples == TickSamples(r, burst)
        stepGoesOn == stepLevel # NoLevel /\ AllEqual(samples, stepLevel)
        stepBegins == ~touched /\ r = baseline + touchThreshold + 1 /\ AllEqual(samples, r)
        ph == SpikeFold(<<spikePhase, spikeStart>>, samples, 1, start, spikeBase,
                        touchThreshold)
    IN  /\ touchSamples' = win
        /\ baseline' = IF due THEN BlendBaseline(baseline, burst) ELSE baseline
        /\ lastBaselineUpdate' = IF due THEN currentTime ELSE lastBaselineUpdate
        /\ adapted' = due
        /\ now' = currentTime
        /\ touched' = IF touch THEN TRUE ELSE IF release THEN FALSE ELSE touched
        /\ lastTouchTime' = IF touch \/ release THEN currentTime ELSE lastTouchTime
        /\ IF touch
           THEN /\ led' = "LOW"
                /\ busLog' = SetRGB(0, FullIntensity) \o SetRGB(5, FullIntensity)
                                 \o <<HoldEntry(Hold1)>>
                /\ dmx' = ApplyWrites(dmx, SetRGB(0, FullIntensity) \o SetRGB(5, FullIntensity))
                /\ plays' = plays + 1
                /\ pc' = "play1"
           ELSE /\ dmx' = IF release THEN ApplyWrites(dmx, AllOff) ELSE dmx
                /\ UNCHANGED <<led, busLog, plays, pc>>
        /\ busBefore' = IF release THEN dmx ELSE busBefore
        /\ allOffCalls' = IF release THEN allOffCalls + 1 ELSE allOffCalls
        /\ calmTicks' = IF touch \/ r # baseline THEN 0 ELSE calmTicks + 1
        /\ newReading' = IF due THEN SumSeq(burst) \div NumBurstSamples ELSE newReading
        /\ reads' = reads + Len(samples)
        /\ releases' = IF release THEN releases + 1 ELSE releases
        /\ ticks' = ticks + 1
        /\ stalls' = IF d = LongStall THEN stalls + 1 ELSE stalls
        /\ stepLevel' = IF stepGoesOn THEN stepLevel ELSE IF stepBegins THEN r ELSE NoLevel
        /\ stepTicks' = IF stepGoesOn THEN stepTicks + 1 ELSE IF stepBegins THEN 1 ELSE 0
        /\ spikePhase' = ph[1]
        /\ spikeStart' = ph[2]
        /\ UNCHANGED <<touchThreshold, releaseThreshold, spikeBase, constLevel,
                       calRun, noiseRun>>

\* time from the moment the previous iteration (or setup) last read the
\* clock to the start of this iteration: the delay(10) that ends an
\* iteration (none before the first one), or a long stall
LoopDelays ==
    {IF ticks = 0 THEN 0 ELSE LoopDelay}
        \cup (IF stalls < MaxStalls THEN {LongStall} ELSE {})

\* an iteration of loop() whose readings come from the set readings
LoopOn(readings) ==
    /\ pc = "loop"
    /\ ticks < MaxTicks
    /\ \E r \in readings, d \in LoopDelays :
          \E burst \in (IF AdaptDue(touched, now + d, lastBaselineUpdate)
                        THEN {Const(v, NumBurstSamples) : v \in readings} ELSE {<<>>}) :
             LoopBody(r, d, burst)

Loop == LoopOn(Readings)

-----------------------------------------------------------------------------
(* playLightSequence, after its first delay                                *)

PlayStep(from, to, held, writes, hold) ==
    /\ pc = from
    /\ pc' = to
    /\ now' = now + held
    /\ dmx' = ApplyWrites(dmx, writes)
    /\ busLog' = busLog \o writes \o hold
    /\ UNCHANGED <<baseline, touchThreshold, releaseThreshold, touched, lastTouchTime,
                   lastBaselineUpdate, touchSamples, plays, releases, adapted, ticks,
                   stalls, constLevel, stepLevel, stepTicks, spikePhase, spikeStart, spikeBase,
                   calmTicks, calRun, noiseRun, newReading, reads>>

\* a variant that lights the third group of fixtures second
Play2_WrongGroup ==
    /\ PlayStep("play1", "play2", Hold1,
                SetRGB(2, FullIntensity) \o SetRGB(3, FullIntensity), <<HoldEntry(Hold2)>>)
    /\ UNCHANGED <<led, busBefore, allOffCalls>>

Play2 ==
    /\ PlayStep("play1", "play2", Hold1,
                SetRGB(1, FullIntensity) \o SetRGB(4, FullIntensity), <<HoldEntry(Hold2)>>)
    /\ UNCHANGED <<led, busBefore, allOffCalls>>

Play3 ==
    /\ PlayStep("play2", "play3", Hold2,
                SetRGB(2, FullIntensity) \o SetRGB(3, FullIntensity), <<HoldEntry(Hold3)>>)
    /\ UNCHANGED <<led, busBefore, allOffCalls>>

Play4 ==
    /\ PlayStep("play3", "play4", Hold3,
                <<SetWrite(AccentChannel, FullIntensity)>>, <<HoldEntry(Hold4)>>)
    /\ UNCHANGED <<led, busBefore, allOffCalls>>

\* a variant that ends the playback without the sweep of allOff
PlayEnd_AccentOnly ==
    /\ PlayStep("play4", "loop", Hold4, <<SetWrite(AccentChannel, 0)>>, <<>>)
    /\ UNCHANGED <<busBefore, allOffCalls>>
    /\ led' = "HIGH"

PlayEnd ==
    /\ PlayStep("play4", "loop", Hold4, <<SetWrite(AccentChannel, 0)>> \o AllOff, <<>>)
    /\ busBefore' = ApplyWrites(dmx, <<SetWrite(AccentChannel, 0)>>)
    /\ allOffCalls' = allOffCalls + 1
    /\ led' = "HIGH"

-----------------------------------------------------------------------------
(* The control-loop specification                                          *)

Next == SetupMain \/ Loop \/ Play2 \/ Play3 \/ Play4 \/ PlayEnd

Spec == Init /\ [][Next]_vars

-----------------------------------------------------------------------------
(* The constant-input specification: every reading the program takes is    *)
(* the same value                                                          *)

InitConst == \E c \in ConstLevels : InitWith(c)

NextConst == SetupMain \/ Loop

SpecConst == InitConst /\ [][NextConst]_vars

-----------------------------------------------------------------------------
(* The calibration specification: setup() over a wide range of calibration *)
(* and noise readings                                                      *)

\* calibration readings: steady at a level, or CalSplit readings at one level
\* and the rest at another
WideCalRuns ==
    {Mix(a, b, k, numCalibrationSamples) :
        a \in {0, QuietLevel, ADC_MAX}, b \in {0, QuietLevel, ADC_MAX}, k \in {0, CalSplit}}

\* noise readings: steady at every level of the sensor range, or split
\* between the two ends of the range
WideNoiseRuns ==
    {Const(v, NumNoiseSamples) : v \in 0..ADC_MAX}
        \cup {Mix(0, ADC_MAX, k, NumNoiseSamples) : k \in 1..(NumNoiseSamples - 1)}

SetupCal ==
    \E cal \in WideCalRuns, noise \in WideNoiseRuns :
        /\ Setup(cal, noise)
        /\ calRun' = cal
        /\ noiseRun' = noise

SpecCal == Init /\ [][SetupCal]_vars

-----------------------------------------------------------------------------
(* The hysteresis specification: while Idle the readings sit at the touch  *)
(* threshold of the quiet calibration or one above it, while Touched at    *)
(* the release threshold or one below it                                   *)

BandReadings ==
    IF touched
    THEN {QuietLevel + releaseThreshold - 1, QuietLevel + releaseThreshold}
    ELSE {QuietLevel + touchThreshold, QuietLevel + touchThreshold + 1}

LoopBand == LoopOn(BandReadings)

NextBand == SetupMain \/ LoopBand \/ Play2 \/ Play3 \/ Play4 \/ PlayEnd

SpecBand == Init /\ [][NextBand]_vars

-----------------------------------------------------------------------------
(* The drift specification: calibration in a quiet environment, then every *)
(* reading at one ambient level near the calibrated baseline               *)

DriftLevels == (QuietLevel - DriftSpan)..(QuietLevel + DriftSpan)

InitDrift == \E c \in DriftLevels : InitWith(c)

SetupQuiet ==
    /\ Setup(Const(QuietLevel, numCalibrationSamples), Const(QuietLevel, NumNoiseSamples))
    /\ UNCHANGED <<calRun, noiseRun>>

NextDrift == SetupQuiet \/ Loop \/ Play2 \/ Play3 \/ Play4 \/ PlayEnd

SpecDrift == InitDrift /\ [][NextDrift]_vars

-----------------------------------------------------------------------------
(* The bus specification: allOff() called on a bus in any of a range of    *)
(* prior states                                                            *)

\* prior states of the bus: a run of adjacent channels at one intensity
BusStates ==
    {[ch \in 1..TOTAL_DMX_CH |-> IF lo <= ch /\ ch <= hi THEN val ELSE 0] :
        lo \in 1..TOTAL_DMX_CH, hi \in 1..TOTAL_DMX_CH, val \in BusIntensities}

InitBus ==
    /\ pc = "bus"
    /\ dmx \in BusStates
    /\ now = 0
    /\ baseline = 0
    /\ touchThreshold = InitialTouchThreshold
    /\ releaseThreshold = InitialReleaseThreshold
    /\ touched = FALSE
    /\ lastTouchTime = 0
    /\ lastBaselineUpdate = 0
    /\ touchSamples = <<>>
    /\ led = "HIGH"
    /\ busLog = <<>>
    /\ plays = 0
    /\ releases = 0
    /\ adapted = FALSE
    /\ ticks = 0
    /\ stalls = 0
    /\ constLevel = NoLevel
    /\ stepLevel = NoLevel
    /\ stepTicks = 0
    /\ spikePhase = "none"
    /\ spikeStart = 0
    /\ spikeBase = 0
    /\ busBefore = dmx
    /\ allOffCalls = 0
    /\ calmTicks = 0
    /\ calRun = <<>>
    /\ noiseRun = <<>>
    /\ newReading = 0
    /\ reads = 0

\* one call of allOff(), its writes recorded in busLog
CallAllOff ==
    /\ pc = "bus"
    /\ pc' = "off"
    /\ dmx' = ApplyWrites(dmx, AllOff)
    /\ busLog' = AllOff
    /\ busBefore' = dmx
    /\ allOffCalls' = allOffCalls + 1
    /\ UNCHANGED <<now, baseline, touchThreshold, releaseThreshold, touched, lastTouchTime,
                   lastBaselineUpdate, touchSamples, led, plays, releases, adapted, ticks,
                   stalls, constLevel, stepLevel, stepTicks, spikePhase, spikeStart,
                   spikeBase, calmTicks, calRun, noiseRun, newReading, reads>>

SpecBus == InitBus /\ [][CallAllOff]_vars

-----------------------------------------------------------------------------
(* Adaptive baseline and thresholds                                        *)

PlayDuration == Hold1 + Hold2 + Hold3 + Hold4

\* C1: after calibration, baseline and lastBaselineUpdate change only in an
\* iteration of loop that ran the adaptive update, with touched false and more
\* than BASELINE_UPDATE_RATE ms between the previous update and the time the
\* update was found due; an iteration that starts with touched true leaves
\* baseline unchanged and runs no update.
C1_BaselineChangesOnlyIdleAndDue ==
    [][pc # "setup" =>
         /\ \/ baseline' # baseline
            \/ lastBaselineUpdate' # lastBaselineUpdate
            \/ (ticks' # ticks /\ adapted')
               => /\ pc = "loop"
                  /\ ticks' # ticks
                  /\ adapted'
                  /\ ~touched
                  /\ Elapsed(lastBaselineUpdate' - BurstDuration, lastBaselineUpdate)
                        > BASELINE_UPDATE_RATE
         /\ touched => baseline' = baseline /\ (ticks' # ticks => ~adapted')]_vars

\* an iteration of loop has run with touched true and the update interval elapsed
C1_Witness ==
    /\ pc = "loop"
    /\ touched
    /\ now > lastTouchTime + PlayDuration
    /\ Elapsed(now, lastBaselineUpdate) > BASELINE_UPDATE_RATE

\* C2: in every state, before and after calibration, releaseThreshold is
\* below touchThreshold.
C2_ReleaseBelowTouch == releaseThreshold < touchThreshold

\* calibration has derived the thresholds from a noise level above the floor
C2_Witness ==
    /\ pc = "loop"
    /\ touchThreshold > ThresholdFloor
    /\ releaseThreshold = ReleaseThresholdOf(touchThreshold)

-----------------------------------------------------------------------------
(* Debouncing and the touch state machine                                  *)

\* C3: a step that changes touched is an iteration of loop whose time is more
\* than DEBOUNCE_TIME ms after lastTouchTime, the recorded time of the
\* previous transition, and it records its own time in lastTouchTime.
C3_TransitionsDebounced ==
    [][touched' # touched =>
         /\ pc = "loop"
         /\ Elapsed(now', lastTouchTime) > DEBOUNCE_TIME
         /\ lastTouchTime' = now']_vars

\* an iteration has run, within the debounce interval of a release, in which
\* the filtered value was above the touch threshold and no touch fired
C3_Witness ==
    /\ pc = "loop"
    /\ releases > 0
    /\ ~touched
    /\ ~adapted
    /\ now > lastTouchTime
    /\ Elapsed(now, lastTouchTime) <= DEBOUNCE_TIME
    /\ GetMedian(touchSamples) - baseline > touchThreshold

\* iterations within which a held step must have been detected: the median
\* follows the step after (SAMPLE_SIZE + 1) / 2 readings, and one more
\* iteration takes the time past the debounce interval of a release that
\* immediately preceded the step
SettleTicks == (SAMPLE_SIZE + 1) \div 2 + 1

\* C4: once every reading since an Idle iteration has been baseline +
\* touchThreshold + 1 (as they were when the step began) for SettleTicks
\* iterations, touched is true.
C4_HeldStepIsDetected == stepTicks >= SettleTicks => touched

\* C5: with every reading equal to one constant, after setup the baseline is
\* that constant, touched is false and the light sequence has not played.
C5_ConstantInputStaysIdle ==
    pc # "setup" =>
        /\ baseline = constLevel
        /\ ~touched
        /\ plays = 0
        /\ pc = "loop"

\* the adaptive update has run on a constant input, after the window has
\* been refilled by the loop
C5_Witness ==
    /\ constLevel # NoLevel
    /\ adapted
    /\ ticks >= SAMPLE_SIZE

SpikeRun == spikePhase \in {"base", "high", "back"}

\* C6 as stated: while the readings since calibration have the shape of one
\* spike shorter than the debounce interval, at most one transition has occurred.
C6_AtMostOneTransition == SpikeRun => plays + releases <= 1

\* C6 as amended: while the readings since calibration have the shape of one
\* spike shorter than the debounce interval, at most one Idle -> Touched
\* transition and at most one Touched -> Idle transition after it have occurred.
C6_AtMostOneTouchAndRelease == SpikeRun => plays <= 1 /\ releases <= plays

\* a spike has been detected as a touch and released after the readings
\* returned to the baseline
C6_Witness ==
    /\ spikePhase = "back"
    /\ plays = 1
    /\ releases = 1

-----------------------------------------------------------------------------
(* The light sequence                                                      *)

IsSet(i) == busLog[i][1] = "set"

IsHold(i) == busLog[i][1] = "hold"

Channel(i) == busLog[i][2]

Intensity(i) == busLog[i][3]

HoldsSoFar == {i \in DOMAIN busLog : IsHold(i)}

\* the number of the group an entry of the log belongs to: one more than the
\* number of holds before it (hs is the set of the holds of the log)
Stage(hs, i) == 1 + Cardinality({h \in hs : h < i})

SetsOfStage(hs, st) == {i \in DOMAIN busLog : IsSet(i) /\ Stage(hs, i) = st}

FixtureChannels(f) == (f * CH_PER_RGB + 1)..(f * CH_PER_RGB + CH_PER_RGB)

\* the fixtures of the three groups, in the order the sequence lights them
GroupChannels(st) ==
    CASE st = 1 -> FixtureChannels(0) \cup FixtureChannels(5)
      [] st = 2 -> FixtureChannels(1) \cup FixtureChannels(4)
      [] st = 3 -> FixtureChannels(2) \cup FixtureChannels(3)

SequencedChannels == GroupChannels(1) \cup GroupChannels(2) \cup GroupChannels(3)

PlayPcs == {"play1", "play2", "play3", "play4"}

HoldOf(p) ==
    CASE p = "play1" -> 1 [] p = "play2" -> 2 [] p = "play3" -> 3 [] p = "play4" -> 4

\* where playLightSequence goes after each of its holds
AfterHold(p) ==
    CASE p = "play1" -> "play2" [] p = "play2" -> "play3"
      [] p = "play3" -> "play4" [] p = "play4" -> "loop"

\* C7: the writes of a playback come in this order: the channels of fixtures
\* 0 and 5 to 255, a hold, the channels of fixtures 1 and 4 to 255, a hold,
\* the channels of fixtures 2 and 3 to 255, a hold, one accent channel to 255,
\* a hold, that accent channel to 0, then 0 to every channel; each hold
\* begins only when its group is complete, and no channel of the six
\* fixtures is written below 255 before the final sweep.
C7_PlaybackOrder ==
    LET hs == HoldsSoFar
        accentOn == SetsOfStage(hs, 4)
        last == SetsOfStage(hs, 5)
    IN  /\ Cardinality(hs) <= 4
        /\ pc \in PlayPcs => Cardinality(hs) = HoldOf(pc) /\ IsHold(Len(busLog))
        /\ \A i \in hs : Intensity(i) > 0
        /\ \A st \in 1..3 :
              LET group == SetsOfStage(hs, st)
              IN  /\ \A i \in group :
                        Channel(i) \in GroupChannels(st) /\ Intensity(i) = FullIntensity
                  /\ Cardinality(hs) >= st =>
                        {Channel(i) : i \in group} = GroupChannels(st)
        /\ \A i \in accentOn :
              Channel(i) \notin SequencedChannels /\ Intensity(i) = FullIntensity
        /\ Cardinality(hs) >= 4 => Cardinality(accentOn) = 1
        /\ \A i \in last : Intensity(i) = 0
        /\ (pc = "loop" /\ plays > 0) =>
              /\ Cardinality(hs) = 4
              /\ \E first \in last :
                    /\ \A i \in last : first <= i
                    /\ \A a \in accentOn : Channel(first) = Channel(a)
                    /\ {Channel(i) : i \in last \ {first}} = 1..TOTAL_DMX_CH
                    /\ Len(busLog) = first + TOTAL_DMX_CH

\* a playback has run to its end
C7_Witness ==
    /\ pc = "loop"
    /\ plays > 0
    /\ Cardinality(SetsOfStage(HoldsSoFar, 5)) = TOTAL_DMX_CH + 1

\* C8: the accent writes of a playback go to channel 22, the single
\* channel after the seven RGB fixtures, first 255 and after the hold 0, and
\* no channel of fixture 6 (19..21) is written with a non-zero intensity.
C8_AccentIsLastChannel ==
    LET hs == HoldsSoFar
        last == SetsOfStage(hs, 5)
    IN  /\ \A i \in SetsOfStage(hs, 4) :
              Channel(i) = TOTAL_DMX_CH /\ Intensity(i) = FullIntensity
        /\ \A i \in last :
              (\A j \in last : i <= j) => Channel(i) = TOTAL_DMX_CH /\ Intensity(i) = 0
        /\ \A i \in DOMAIN busLog :
              (IsSet(i) /\ Channel(i) \in FixtureChannels(NUM_RGB_FIX - 1)) => Intensity(i) = 0

\* C9: playLightSequence is called exactly in the steps that take touched
\* from false to true, so every call but the one of a current touch has been
\* followed by a release; once called it runs through its four holds to the
\* end, and until then no reading enters the filter, no iteration of loop
\* starts and touched does not change.
C9_PlayedOncePerTouch ==
    /\ [](plays = releases + (IF touched THEN 1 ELSE 0))
    /\ [][(plays' # plays \/ (~touched /\ touched') \/ (pc = "loop" /\ pc' = "play1"))
            => /\ pc = "loop" /\ pc' = "play1"
               /\ ~touched /\ touched'
               /\ plays' = plays + 1
               /\ ticks' = ticks + 1]_vars
    /\ [][(pc # "setup" /\ pc # "loop")
            => /\ touchSamples' = touchSamples
               /\ touched' = touched
               /\ touched
               /\ ticks' = ticks
               /\ plays' = plays
               /\ pc' = AfterHold(pc)]_vars

\* an iteration of loop has run after a playback with the touch sustained:
\* the filtered value is above the threshold and the debounce interval is
\* over, and the sequence has played once
C9_Witness ==
    /\ pc = "loop"
    /\ touched
    /\ plays = 1
    /\ now > lastTouchTime + PlayDuration
    /\ GetMedian(touchSamples) - baseline > touchThreshold

\* C10: at the end of setup and of every iteration of loop, the LED is LOW
\* (active) exactly when touched is true.
C10_IndicatorReflectsTouchState == pc = "loop" => (led = "LOW" <=> touched)

-----------------------------------------------------------------------------
(* The bus                                                                 *)

AllChannels == 1..TOTAL_DMX_CH

Dark(d) == \A ch \in AllChannels : d[ch] = 0

\* C11: after a call of allOff() on a bus in any prior state, the value of
\* every channel 1..22 is 0, and the call has written 0 once to each of the
\* channels 1..22 and to no other channel.
C11_AllOffClearsEveryChannel ==
    pc = "off" =>
        /\ AllChannels = 1..22
        /\ DOMAIN dmx = AllChannels
        /\ Dark(dmx)
        /\ Len(busLog) = 22
        /\ \A i \in DOMAIN busLog :
              IsSet(i) /\ Channel(i) \in 1..22 /\ Intensity(i) = 0
        /\ {Channel(i) : i \in DOMAIN busLog} = 1..22

\* allOff() has run on a bus whose last channel, with others, was lit
C11_Witness ==
    /\ pc = "off"
    /\ busBefore[TOTAL_DMX_CH] = FullIntensity
    /\ busBefore[1] = FullIntensity
    /\ dmx[TOTAL_DMX_CH] = 0

-----------------------------------------------------------------------------
(* Hysteresis                                                              *)

\* the difference an iteration of loop compares with the thresholds: the
\* median of the window after its reading, minus the baseline the iteration
\* began with
TickDifference == GetMedian(touchSamples') - baseline

\* C12: touched goes from false to true only in an iteration whose
\* difference is above touchThreshold, and from true to false only in one
\* whose difference is below releaseThreshold; an iteration whose difference
\* lies from releaseThreshold to touchThreshold, both included, leaves
\* touched as it is, so a touch whose difference never falls below
\* releaseThreshold stays.
C12_StrictHysteresis ==
    [][ticks' # ticks =>
         /\ (~touched /\ touched') => TickDifference > touchThreshold
         /\ (touched /\ ~touched') => TickDifference < releaseThreshold
         /\ (releaseThreshold <= TickDifference /\ TickDifference <= touchThreshold)
               => touched' = touched
         /\ (touched /\ TickDifference >= releaseThreshold) => touched']_vars

\* after a playback, with the debounce interval long over, the difference
\* has come down to releaseThreshold exactly and the touch is still held
C12_Witness ==
    /\ pc = "loop"
    /\ touched
    /\ plays = 1
    /\ now > lastTouchTime + PlayDuration
    /\ GetMedian(touchSamples) - baseline = releaseThreshold

\* readings after which the median is the level they share: a majority of
\* the window
Majority == (SAMPLE_SIZE + 1) \div 2

\* C13: once Majority iterations in a row since a playback have read the
\* baseline, touched is false again: the release is observed after the
\* playback, as soon as the median of the window (which still holds the
\* readings from before the playback) has come down; and the step that
\* takes touched to false calls allOff() and leaves every channel at 0.
C13_ReleaseAfterPlayback ==
    /\ [](calmTicks >= Majority => ~touched)
    /\ [][releases' # releases =>
            /\ touched /\ ~touched'
            /\ pc = "loop" /\ pc' = "loop"
            /\ allOffCalls' = allOffCalls + 1
            /\ Dark(dmx')]_vars

\* a touch has been played and then released in the iteration in which the
\* readings at the baseline became the majority of the window
C13_Witness ==
    /\ plays = 1
    /\ releases = 1
    /\ ~touched
    /\ calmTicks = Majority
    /\ now = lastTouchTime
    /\ Dark(dmx)

-----------------------------------------------------------------------------
(* Outlier rejection                                                       *)

\* the places of the window w that hold a reading above the touch level
HighPlaces(w) == {i \in DOMAIN w : w[i] > baseline + touchThreshold}

\* C14: the window holds the last SAMPLE_SIZE readings, the copies of the
\* baseline that calibration put there included; a step that takes touched
\* from false to true leaves a window in which at least 5 of the 9 readings
\* are above baseline + touchThreshold, so fewer than 5 such readings among
\* 9 consecutive iterations cause no touch, and no touch is registered in
\* the first 4 iterations after calibration.
C14_MinorityOfOutliersIsRejected ==
    /\ [](pc # "setup" => Len(touchSamples) = 9)
    /\ [](ticks < 5 => ~touched /\ plays = 0)
    /\ [][(~touched /\ touched') => Cardinality(HighPlaces(touchSamples')) >= 5]_vars

\* nine iterations have run, four of them with a reading above the touch
\* level and the others at the baseline, more than the debounce interval has
\* passed, and no touch has been registered
C14_Witness ==
    /\ pc = "loop"
    /\ ticks >= SAMPLE_SIZE
    /\ plays = 0
    /\ ~touched
    /\ Cardinality(HighPlaces(touchSamples)) = 4
    /\ \A i \in DOMAIN touchSamples \ HighPlaces(touchSamples) : touchSamples[i] = baseline
    /\ touchSamples[SAMPLE_SIZE] > baseline + touchThreshold
    /\ Elapsed(now, lastTouchTime) > DEBOUNCE_TIME

-----------------------------------------------------------------------------
(* Calibration                                                             *)

\* the truncated mean of the recorded calibration readings
MeanOfCalRun == SumSeq(calRun) \div 100

\* the truncated mean of the distance of the recorded noise readings from b
MeanDeviation(b) ==
    SumSeq([i \in 1..20 |-> IF noiseRun[i] >= b THEN noiseRun[i] - b ELSE b - noiseRun[i]])
        \div 20

\* C15: after a calibration over readings in 0..1023, baseline is the
\* truncated mean of the 100 calibration readings, touchThreshold is the
\* larger of 50 and 3 times the truncated mean of |reading - baseline| over
\* the 20 noise readings, and releaseThreshold is floor(2 * touchThreshold / 3);
\* hence touchThreshold >= 50 and releaseThreshold >= 33.
C15_ThresholdsFromNoise ==
    pc = "loop" =>
        LET n == MeanDeviation(MeanOfCalRun)
        IN  /\ Len(calRun) = 100 /\ Len(noiseRun) = 20
            /\ \A i \in DOMAIN calRun : calRun[i] \in 0..1023
            /\ \A i \in DOMAIN noiseRun : noiseRun[i] \in 0..1023
            /\ baseline = MeanOfCalRun
            /\ touchThreshold = (IF 3 * n >= 50 THEN 3 * n ELSE 50)
            /\ 3 * releaseThreshold <= 2 * touchThreshold
            /\ 2 * touchThreshold < 3 * releaseThreshold + 3
            /\ touchThreshold >= 50
            /\ releaseThreshold >= 33

\* a calibration has run whose noise readings lie on both sides of the
\* baseline, far enough from it to raise the threshold above the floor
C15_Witness ==
    /\ pc = "loop"
    /\ \E i \in DOMAIN noiseRun : noiseRun[i] < baseline
    /\ \E i \in DOMAIN noiseRun : noiseRun[i] > baseline
    /\ touchThreshold > 50
    /\ touchThreshold = 3 * MeanDeviation(baseline)

\* the number of values a reading can take
SensorRange == ADC_MAX + 1

\* C16: after a calibration over readings in 0..1023, releaseThreshold <
\* touchThreshold < 1024, and some reading in 0..1023 differs from baseline
\* by more than touchThreshold, so a touch can be detected.
C16_ThresholdWithinSensorRange ==
    pc = "loop" =>
        /\ releaseThreshold < touchThreshold
        /\ touchThreshold < SensorRange
        /\ \E reading \in 0..ADC_MAX : reading - baseline > touchThreshold

-----------------------------------------------------------------------------
(* Adaptive update                                                         *)

\* an iteration of loop that has run the adaptive update
UpdateStep == ticks' # ticks /\ adapted'

\* C17: with touched false and every reading at one ambient level within
\* touchThreshold of the baseline, above it or below it, the adaptive
\* updates bring the baseline to that level: an update never leaves the
\* baseline where it was, short of the level (from where no later update
\* could move it either).
C17_BaselineReachesAmbientLevel ==
    [][(/\ UpdateStep
        /\ ~touched
        /\ constLevel # NoLevel
        /\ Abs(constLevel - baseline) <= touchThreshold
        /\ baseline # constLevel)
          => baseline' # baseline]_vars

\* the window has taken in one reading and dropped its oldest
OneReadingIngested ==
    /\ Len(touchSamples') = Len(touchSamples)
    /\ \A i \in 1..(Len(touchSamples) - 1) : touchSamples'[i] = touchSamples[i + 1]

\* C18: an adaptive update sets baseline to the truncated quotient of
\* 9 * baseline + m by 10, m being the truncated mean of the 10 burst
\* readings; the new baseline lies from the old baseline to m, both
\* included, and within 0..1023. The update changes baseline and
\* lastBaselineUpdate only: in the iteration that runs it the thresholds
\* stay, the window takes in the one reading of the iteration and none of
\* the burst, and touched and lastTouchTime change only by the transition
\* the iteration evaluates after the update.
C18_UpdateBlendsBaseline ==
    [][UpdateStep =>
         /\ constLevel # NoLevel => newReading' = constLevel
         /\ newReading' \in 0..1023
         /\ 10 * baseline' <= 9 * baseline + newReading'
         /\ 9 * baseline + newReading' < 10 * baseline' + 10
         /\ \/ baseline <= baseline' /\ baseline' <= newReading'
            \/ newReading' <= baseline' /\ baseline' <= baseline
         /\ baseline' \in 0..1023
         /\ lastBaselineUpdate' = now'
         /\ touchThreshold' = touchThreshold
         /\ releaseThreshold' = releaseThreshold
         /\ OneReadingIngested
         /\ lastTouchTime' # lastTouchTime => touched' # touched
         /\ touched' # touched => ~touched /\ TickDifference > touchThreshold]_vars

\* the last iteration ran an update that moved the baseline from its
\* calibrated value part of the way to the mean of the burst
C18_Witness ==
    /\ adapted
    /\ spikeBase < baseline
    /\ baseline < newReading

-----------------------------------------------------------------------------
(* The bus between playbacks                                               *)

\* C19: at the end of setup and of every iteration of loop, with touched
\* true or false, every channel 1..22 holds 0; a channel holds another
\* value only inside playLightSequence; and the allOff() of a release
\* finds every channel at 0 already and changes none.
C19_DarkOutsidePlayback ==
    /\ [](pc = "loop" => Dark(dmx))
    /\ [](~Dark(dmx) => pc \in PlayPcs /\ touched)
    /\ [][releases' # releases =>
            /\ allOffCalls' = allOffCalls + 1
            /\ Dark(busBefore')
            /\ dmx' = dmx]_vars

\* a touch is still held after its playback has ended and an iteration of
\* loop has run since, and the lights are off
C19_Witness ==
    /\ pc = "loop"
    /\ touched
    /\ plays = 1
    /\ now > lastTouchTime + PlayDuration
    /\ Dark(dmx)
    /\ \E ch \in AllChannels : busBefore[ch] = FullIntensity

-----------------------------------------------------------------------------
(* Readings per iteration                                                  *)

\* C20 as stated: the program has taken one reading per iteration of loop,
\* each of them ingested into the window: as many readings since
\* calibration as iterations.
C20_OneReadingPerTick == reads = ticks

\* C20 as amended: an iteration of loop takes one reading, ingests it into
\* the window and evaluates at most one transition; an iteration in which
\* the adaptive update is due takes NumBurstSamples more readings, none of
\* which enters the window; no reading is taken outside an iteration.
C20_OneIngestedReadingPerTick ==
    /\ [][ticks' # ticks =>
            /\ ticks' = ticks + 1
            /\ reads' = reads + 1 + (IF adapted' THEN NumBurstSamples ELSE 0)
            /\ OneReadingIngested
            /\ (plays' + releases') - (plays + releases) \in {0, 1}]_vars
    /\ [][(reads' # reads \/ touchSamples' # touchSamples) =>
            (ticks' # ticks \/ pc = "setup")]_vars

\* an iteration has run the adaptive update and taken its burst of readings
\* besides its own
C20_Witness ==
    /\ adapted
    /\ ticks > 0
    /\ reads = ticks + NumBurstSamples
    /\ Len(touchSamples) = SAMPLE_SIZE

====
